---- MODULE Spec2Model ----
(***************************************************************************)
(* Model of the Reddit-thread converter: reddit_converter.py (the core    *)
(* pipeline) and its three HTTP wrappers app.py, api/index.py and         *)
(* api/convert.py.                                                         *)
(*                                                                         *)
(* Python strings that the code inspects character by character (URLs)    *)
(* are sequences of one-character strings.  Strings the code only         *)
(* compares or copies (comment bodies, titles, authors) are TLA+ strings. *)
(* A JSON object is a function whose DOMAIN is the set of keys present.   *)
(* A JSON value whose Python type the code tests (the 'replies' field) is *)
(* a tagged record [t |-> "str", s |-> string] or [t |-> "dict", d |-> dict]. *)
(***************************************************************************)
EXTENDS Integers, Sequences, FiniteSets, TLC

VARIABLES
    pc,               \* the statement the running call is at
    wrapper,          \* who runs the pipeline: "app", "index", "handler", or "call"
    req,              \* the HTTP request the wrapper received
    url,              \* the caller's url, after strip()
    json_url,         \* ensure_json_url(url)
    fetches,          \* number of requests.get attempts made
    data,             \* the parsed JSON returned by fetch_reddit_json
    post_info,        \* extract_post_info(data)
    comments,         \* extract_comments(data)
    sorted_comments,  \* sort_comments_by_upvotes(comments)
    output,           \* format_output(post_info, sorted_comments), as its list of lines
    exc,              \* the exception in flight, "" when none
    response,         \* the wrapper's HTTP response
    calls             \* the core functions called so far, in call order

vars == <<pc, wrapper, req, url, json_url, fetches, data, post_info, comments,
          sorted_comments, output, exc, response, calls>>

----------------------------------------------------------------------------
(* Bounds of the model *)

MaxUrlLen == 2       \* characters of a url before its ending
MaxSlashes == 2      \* trailing '/' characters of a url
MaxNodes == 3        \* comment nodes of a comment listing
MaxIrregular == 1    \* nodes of a listing that lack 'data' or a well-formed 'replies'
MaxComments == 4     \* records handed to sort_comments_by_upvotes
MaxUps == 2          \* largest upvote count of a record
FetchMaxNodes == 2   \* comment nodes of a listing returned by a fetch in a request

----------------------------------------------------------------------------
(* Python values *)

\* Python's None; a reserved string no JSON string of the model equals.
None == "<None>"

\* d.get(k, default) on a dict d
Get(d, k, default) == IF k \in DOMAIN d THEN d[k] ELSE default

\* The empty dict {}
EmptyDict == [k \in {} |-> None]

----------------------------------------------------------------------------
(* Strings as character sequences: str.endswith, str.rstrip, str.strip *)

JsonSuffix == <<".", "j", "s", "o", "n">>

EndsWith(s, suf) ==
    /\ Len(s) >= Len(suf)
    /\ SubSeq(s, Len(s) - Len(suf) + 1, Len(s)) = suf

RECURSIVE RStrip(_, _)
RStrip(s, chars) ==
    IF s # <<>> /\ s[Len(s)] \in chars
    THEN RStrip(SubSeq(s, 1, Len(s) - 1), chars)
    ELSE s

RECURSIVE LStrip(_, _)
LStrip(s, chars) ==
    IF s # <<>> /\ s[1] \in chars
    THEN LStrip(Tail(s), chars)
    ELSE s

Whitespace == {" "}

Strip(s) == LStrip(RStrip(s, Whitespace), Whitespace)

\* ensure_json_url(url)
ensure_json_url(u) ==
    IF EndsWith(u, JsonSuffix)
    THEN u
    ELSE RStrip(u, {"/"}) \o JsonSuffix

----------------------------------------------------------------------------
(* extract_post_info *)

\* The result of a call that may raise: err is the exception's name, "" on return.
Returned(v) == [err |-> "", val |-> v]
Raised(e) == [err |-> e, val |-> None]

\* data[0]['data']['children'][0]['data'] : each subscript raises when the key
\* or the index is absent
PostDataPath(d) ==
    IF "data" \notin DOMAIN d[1] THEN Raised("KeyError")
    ELSE IF "children" \notin DOMAIN d[1].data THEN Raised("KeyError")
    ELSE IF Len(d[1].data.children) < 1 THEN Raised("IndexError")
    ELSE IF "data" \notin DOMAIN d[1].data.children[1] THEN Raised("KeyError")
    ELSE Returned(d[1].data.children[1].data)

\* extract_post_info(data)
extract_post_info(d) ==
    IF Len(d) < 1
    THEN Returned(EmptyDict)
    ELSE LET p == PostDataPath(d)
         IN  IF p.err # "" THEN p
             ELSE Returned([title    |-> Get(p.val, "title", ""),
                            selftext |-> Get(p.val, "selftext", ""),
                            author   |-> Get(p.val, "author", ""),
                            score    |-> Get(p.val, "score", 0),
                            url      |-> Get(p.val, "url", "")])

----------------------------------------------------------------------------
(* extract_comments *)

\* Python truthiness of a tagged JSON value: a non-empty str, a non-empty dict
Truthy(v) == IF v.t = "dict" THEN DOMAIN v.d # {} ELSE v.s # ""

\* replies.get('data', {}).get('children', [])
RepliesChildren(r) == Get(Get(r.d, "data", EmptyDict), "children", <<>>)

\* The test of line 70: a "more" object, or a body that is None / deleted / removed
IsSkipped(cd) ==
    \/ Get(cd, "kind", None) = "more"
    \/ Get(cd, "body", None) \in {None, "[deleted]", "[removed]"}

\* The record built at lines 77-86
CommentRecord(cd) ==
    [body         |-> Get(cd, "body", ""),
     author       |-> Get(cd, "author", "[deleted]"),
     score        |-> Get(cd, "score", 0),
     upvotes      |-> Get(cd, "ups", 0),
     downvotes    |-> Get(cd, "downs", 0),
     created_utc  |-> Get(cd, "created_utc", 0),
     is_submitter |-> Get(cd, "is_submitter", FALSE),
     permalink    |-> Get(cd, "permalink", "")]

\* Variant of AppendIfBody that appends without testing the body
AppendIfBody_Always(acc, comment) == Append(acc, comment)

\* lines 89-90: append the record when its body is truthy
AppendIfBody(acc, comment) ==
    IF comment.body # "" THEN Append(acc, comment) ELSE acc

RECURSIVE traverse_comments(_, _)
RECURSIVE TraverseAll(_, _)

\* Variant of SkipBranch that returns without looking at the replies
SkipBranch_NoDescent(cd, acc) == acc

\* lines 71-74: the branch of a skipped node.  acc is the enclosing 'comments'
\* list so far, as Returned(list), or the exception raised so far.
SkipBranch(cd, acc) ==
    IF "replies" \in DOMAIN cd /\ Truthy(cd.replies)
    THEN IF cd.replies.t # "dict"
         THEN Raised("AttributeError")
         ELSE TraverseAll(RepliesChildren(cd.replies), acc)
    ELSE acc

\* Variant of EmitBranch that processes the replies before appending the record
EmitBranch_RepliesFirst(cd, acc) ==
    LET r == IF "replies" \in DOMAIN cd /\ Truthy(cd.replies) /\ cd.replies.t = "dict"
             THEN TraverseAll(RepliesChildren(cd.replies), acc)
             ELSE acc
    IN  IF r.err # "" THEN r ELSE Returned(AppendIfBody(r.val, CommentRecord(cd)))

\* lines 76-96: the branch of a node that is not skipped
EmitBranch(cd, acc) ==
    LET acc1 == Returned(AppendIfBody(acc.val, CommentRecord(cd)))
    IN  IF "replies" \in DOMAIN cd /\ Truthy(cd.replies) /\ cd.replies.t = "dict"
        THEN TraverseAll(RepliesChildren(cd.replies), acc1)
        ELSE acc1

\* traverse_comments(comment_tree), lines 62-96
traverse_comments(tree, acc) ==
    IF "data" \notin DOMAIN tree
    THEN acc
    ELSE IF IsSkipped(tree.data)
         THEN SkipBranch(tree.data, acc)
         ELSE EmitBranch(tree.data, acc)

\* for x in children: traverse_comments(x) ; an exception ends the loop
TraverseAll(children, acc) ==
    IF acc.err # "" \/ children = <<>>
    THEN acc
    ELSE TraverseAll(Tail(children), traverse_comments(Head(children), acc))

\* data[1]['data']['children'], line 99
CommentsSection(d) ==
    IF "data" \notin DOMAIN d[2] THEN Raised("KeyError")
    ELSE IF "children" \notin DOMAIN d[2].data THEN Raised("KeyError")
    ELSE Returned(d[2].data.children)

\* extract_comments(data)
extract_comments(d) ==
    IF Len(d) < 2
    THEN Returned(<<>>)
    ELSE LET section == CommentsSection(d)
         IN  IF section.err # "" THEN section
             ELSE TraverseAll(section.val, Returned(<<>>))

----------------------------------------------------------------------------
(* sort_comments_by_upvotes *)

\* Variant of InsertByUpvotes that places a record before the records of equal key
RECURSIVE InsertByUpvotes_BeforeEqual(_, _)
InsertByUpvotes_BeforeEqual(s, x) ==
    IF s = <<>> THEN <<x>>
    ELSE IF Head(s).upvotes > x.upvotes
         THEN <<Head(s)>> \o InsertByUpvotes_BeforeEqual(Tail(s), x)
         ELSE <<x>> \o s

\* The place a record takes in a list sorted highest first: sorted(...,
\* reverse=True) is stable, so it goes after every record whose key is >= its own.
RECURSIVE InsertByUpvotes(_, _)
InsertByUpvotes(s, x) ==
    IF s = <<>> THEN <<x>>
    ELSE IF Head(s).upvotes >= x.upvotes
         THEN <<Head(s)>> \o InsertByUpvotes(Tail(s), x)
         ELSE <<x>> \o s

\* sorted(comments, key=lambda x: x['upvotes'], reverse=True)
RECURSIVE sort_comments_by_upvotes(_)
sort_comments_by_upvotes(cs) ==
    IF cs = <<>> THEN <<>>
    ELSE InsertByUpvotes(sort_comments_by_upvotes(SubSeq(cs, 1, Len(cs) - 1)),
                         cs[Len(cs)])

----------------------------------------------------------------------------
(* format_output: the list 'output' of lines, before "\n".join.  A line built *)
(* by an f-string is the tuple of its literal and interpolated parts.          *)

Banner == "================================================================================"
Divider == "--------------------------------------------------------------------------------"

PostLines(pi) ==
    << <<Banner>>, <<"REDDIT POST">>, <<Banner>>,
       <<"Title: ", Get(pi, "title", "N/A")>>,
       <<"Author: u/", Get(pi, "author", "N/A")>>,
       <<"Score: ", Get(pi, "score", 0), " upvotes">>,
       <<"">> >>

\* post_info.get('selftext') is truthy
SelftextLines(pi) ==
    IF Get(pi, "selftext", None) \notin {None, ""}
    THEN << <<"Post Content:">>, <<Divider>>, <<pi.selftext>>, <<"">> >>
    ELSE << >>

CommentsHeader(cs) ==
    << <<Banner>>, <<"COMMENTS (Sorted by Upvotes, Highest First)">>,
       <<"Total Comments: ", Len(cs)>>, <<Banner>>, <<"">> >>

CommentLines(idx, c) ==
    << <<"Comment #", idx>>, <<Divider>>,
       <<"Upvotes: ", c.upvotes, " | Score: ", c.score, " | Author: u/", c.author>> >>
    \o (IF c.is_submitter THEN << <<"(Original Poster)">> >> ELSE << >>)
    \o << <<"">>, <<c.body>>, <<"">>, <<"">> >>

RECURSIVE AllCommentLines(_, _)
AllCommentLines(cs, idx) ==
    IF idx > Len(cs) THEN << >>
    ELSE CommentLines(idx, cs[idx]) \o AllCommentLines(cs, idx + 1)

\* format_output(post_info, comments)
format_output(pi, cs) ==
    PostLines(pi) \o SelftextLines(pi) \o CommentsHeader(cs) \o AllCommentLines(cs, 1)

----------------------------------------------------------------------------
(* The JSON a fetch can return: a list of listings, as Reddit serves it, and *)
(* the malformed shapes the code's guards and subscripts distinguish.        *)

Str(x) == [t |-> "str", s |-> x]
Dict(x) == [t |-> "dict", d |-> x]

Listing(children) == [kind |-> "Listing", data |-> [children |-> children]]

\* A comment node {"kind": "t1", "data": {...}}: content are the fields the
\* node carries, id numbers the nodes of a listing in pre-order, replies is
\* EmptyDict (no 'replies' key) or the 'replies' entry.
Node(content, id, replies) ==
    [kind |-> "t1", data |-> content @@ ("permalink" :> ToString(id)) @@ replies]

\* A node without a 'data' payload
NoDataNode == [kind |-> "t1"]

\* A childless node's 'replies' as Reddit serves it: the empty string
NoReplies == "replies" :> Str("")

\* The shapes of a childless node: "reg" is Reddit's (replies = ""); the others
\* lack 'replies', carry a non-empty string or a dict without 'data' as
\* 'replies', or lack the 'data' payload altogether
Variants == {"reg", "noreplies", "strreplies", "dictnodata", "nodata"}

LeafReplies(variant) ==
    CASE variant = "reg" -> NoReplies
      [] variant = "noreplies" -> EmptyDict
      [] variant = "strreplies" -> "replies" :> Str("x")
      [] variant = "dictnodata" -> "replies" :> Dict([kind |-> "Listing"])

\* kind / body combinations of a node's data
ContentLabels ==
    { EmptyDict,
      [body |-> ""],
      [body |-> "[deleted]"],
      [body |-> "[removed]"],
      [body |-> "hello"],
      [kind |-> "more"],
      [kind |-> "more", body |-> "hello"] }

\* A forest of n nodes numbered in pre-order is its parent vector p (p[i] = 0
\* for a root): the parent of i is i-1 or an ancestor of i-1.
RECURSIVE Chain(_, _)
Chain(p, i) == IF i = 0 THEN {0} ELSE {i} \cup Chain(p, p[i])

ParentVectors(n) ==
    {p \in [1..n -> 0..n] : \A i \in 1..n : p[i] < i /\ p[i] \in Chain(p, i - 1)}

IsLeaf(p, i) == \A j \in DOMAIN p : p[j] # i

\* The shape of each node: only childless nodes are irregular, at most q of them
VariantVectors(n, p, q) ==
    {v \in [1..n -> Variants] :
        /\ \A i \in 1..n : v[i] # "reg" => IsLeaf(p, i)
        /\ Cardinality({i \in 1..n : v[i] # "reg"}) <= q}

Kids(p, i) == SelectSeq([j \in 1..Len(p) |-> j], LAMBDA j : p[j] = i)

RECURSIVE BuildNode(_, _, _, _)
RECURSIVE BuildList(_, _, _, _)

\* The JSON of node i with content c[i] and shape v[i]
BuildNode(p, c, v, i) ==
    IF v[i] = "nodata" THEN NoDataNode
    ELSE IF IsLeaf(p, i) THEN Node(c[i], i, LeafReplies(v[i]))
    ELSE Node(c[i], i, "replies" :> Dict(Listing(BuildList(p, c, v, Kids(p, i)))))

BuildList(p, c, v, kids) ==
    IF kids = << >> THEN << >>
    ELSE <<BuildNode(p, c, v, Head(kids))>> \o BuildList(p, c, v, Tail(kids))

\* The children list of a comment listing
BuildForest(p, c, v) == BuildList(p, c, v, Kids(p, 0))

\* A well-formed post listing
GoodPost ==
    Listing(<< [kind |-> "t3",
                data |-> [title |-> "T", author |-> "bob", score |-> 7]] >>)

\* The inputs of extract_comments that have no comment forest: fewer than two
\* listings, a second listing without 'data' or without 'children'
ShortInputs ==
    { << >>, <<GoodPost>>,
      <<GoodPost, [kind |-> "Listing"]>>,
      <<GoodPost, [kind |-> "Listing", data |-> EmptyDict]>> }

\* d is a post listing followed by a comment listing of at most n nodes, at most
\* q of them irregular, with contents drawn from L
IsForestInput(d, n, q, L) ==
    \E m \in 0..n : \E p \in ParentVectors(m) : \E v \in VariantVectors(m, p, q) :
        \E c \in [1..m -> L] :
            d = <<GoodPost, Listing(BuildForest(p, c, v))>>

\* The posts a fetch can return: fields present, empty or absent
PostFields ==
    {t @@ a @@ x :
        t \in {EmptyDict, [title |-> ""], [title |-> "T"]},
        a \in {EmptyDict, [author |-> ""], [author |-> "bob"]},
        x \in {EmptyDict, [selftext |-> "text", score |-> 7]}}

\* Post listings: without 'data', without 'children', without a child, with a
\* child that has no 'data', and with a post
PostListings ==
    { [kind |-> "Listing"],
      [kind |-> "Listing", data |-> EmptyDict],
      Listing(<< >>),
      Listing(<< [kind |-> "t3"] >>) }
    \cup {Listing(<< [kind |-> "t3", data |-> f] >>) : f \in PostFields}

\* Top-level lists of 0, 1 and 2 listings around each post listing
PostInputs ==
    { << >> }
    \cup {<<pl>> : pl \in PostListings}
    \cup {<<pl, Listing(<< >>)>> : pl \in PostListings}

\* Contents of the comments a fetch returns in a request
FetchLabels ==
    { [body |-> "hello"],
      [body |-> "hello", ups |-> 1],
      [body |-> "world", ups |-> 1, author |-> "bob", is_submitter |-> TRUE],
      [body |-> "[deleted]"] }

\* The url argument of a direct call of ensure_json_url
SeqsUpTo(S, n) == UNION {[1..k -> S] : k \in 0..n}

UrlInputs ==
    {b \o e \o [i \in 1..k |-> "/"] :
        b \in SeqsUpTo({"r", "/", "."}, MaxUrlLen),
        e \in {<< >>, JsonSuffix, <<".", "j", "s", "o">>},
        k \in 0..MaxSlashes}

\* The argument of a direct call of sort_comments_by_upvotes: records telling
\* apart by permalink, with upvotes 0..MaxUps
SortInputs ==
    {[i \in 1..Len(u) |->
        CommentRecord([body |-> "hello", ups |-> u[i], permalink |-> ToString(i)])] :
        u \in SeqsUpTo(0..MaxUps, MaxComments)}

----------------------------------------------------------------------------
(* Steps of the pipeline.  A wrapper runs them in sequence; wrapper = "call"  *)
(* is a direct call of one function, which ends when the function returns.    *)

\* Where control goes when a step returns / raises
Then(next) == IF wrapper = "call" THEN "done" ELSE next
OnRaise == IF wrapper = "call" THEN "done" ELSE "except"

\* json_url = ensure_json_url(url)
EnsureJsonUrl ==
    /\ pc = "ensure_json_url"
    /\ json_url' = ensure_json_url(url)
    /\ calls' = Append(calls, "ensure_json_url")
    /\ pc' = Then("fetch_reddit_json")
    /\ UNCHANGED <<wrapper, req, url, fetches, data, post_info, comments,
                   sorted_comments, output, exc, response>>

\* comments = extract_comments(reddit_data)
ExtractComments ==
    /\ pc = "extract_comments"
    /\ LET r == extract_comments(data)
       IN  /\ exc' = r.err
           /\ comments' = r.val
           /\ pc' = IF r.err = "" THEN Then("sort_comments_by_upvotes") ELSE OnRaise
    /\ calls' = Append(calls, "extract_comments")
    /\ UNCHANGED <<wrapper, req, url, json_url, fetches, data, post_info,
                   sorted_comments, output, response>>

\* reddit_data = fetch_reddit_json(json_url), when requests.get, raise_for_status
\* and response.json() succeed: one attempt, the parsed JSON is returned
FetchReturns ==
    /\ pc = "fetch_reddit_json"
    /\ fetches' = fetches + 1
    /\ \/ data' \in PostInputs
       \/ IsForestInput(data', FetchMaxNodes, 0, FetchLabels)
    /\ calls' = Append(calls, "fetch_reddit_json")
    /\ pc' = Then("extract_post_info")
    /\ UNCHANGED <<wrapper, req, url, json_url, post_info, comments,
                   sorted_comments, output, exc, response>>

\* Variant of FetchRaises that attempts the fetch again after a failure
FetchRaises_Retry ==
    /\ pc = "fetch_reddit_json"
    /\ fetches' = fetches + 1
    /\ exc' = "FetchError"
    /\ calls' = Append(calls, "fetch_reddit_json")
    /\ pc' = IF fetches < 1 THEN "fetch_reddit_json" ELSE OnRaise
    /\ UNCHANGED <<wrapper, req, url, json_url, data, post_info, comments,
                   sorted_comments, output, response>>

\* fetch_reddit_json when the attempt fails: the error is re-raised to the caller
FetchRaises ==
    /\ pc = "fetch_reddit_json"
    /\ fetches' = fetches + 1
    /\ exc' = "FetchError"
    /\ calls' = Append(calls, "fetch_reddit_json")
    /\ pc' = OnRaise
    /\ UNCHANGED <<wrapper, req, url, json_url, data, post_info, comments,
                   sorted_comments, output, response>>

\* post_info = extract_post_info(reddit_data)
ExtractPostInfo ==
    /\ pc = "extract_post_info"
    /\ LET r == extract_post_info(data)
       IN  /\ exc' = r.err
           /\ post_info' = r.val
           /\ pc' = IF r.err = "" THEN Then("extract_comments") ELSE OnRaise
    /\ calls' = Append(calls, "extract_post_info")
    /\ UNCHANGED <<wrapper, req, url, json_url, fetches, data, comments,
                   sorted_comments, output, response>>

\* sorted_comments = sort_comments_by_upvotes(comments)
SortComments ==
    /\ pc = "sort_comments_by_upvotes"
    /\ sorted_comments' = sort_comments_by_upvotes(comments)
    /\ calls' = Append(calls, "sort_comments_by_upvotes")
    /\ pc' = Then("format_output")
    /\ UNCHANGED <<wrapper, req, url, json_url, fetches, data, post_info, comments,
                   output, exc, response>>

\* output = format_output(post_info, sorted_comments)
FormatOutput ==
    /\ pc = "format_output"
    /\ output' = format_output(post_info, sorted_comments)
    /\ calls' = Append(calls, "format_output")
    /\ pc' = Then("respond")
    /\ UNCHANGED <<wrapper, req, url, json_url, fetches, data, post_info, comments,
                   sorted_comments, exc, response>>

----------------------------------------------------------------------------
(* The HTTP wrappers *)

\* JSON values of a request body
JNull == [t |-> "null"]
JNum == [t |-> "num"]
JList(n) == [t |-> "list", len |-> n]
UrlStr(u) == [t |-> "str", chars |-> u]

\* Python truthiness of a parsed body
PayloadTruthy(v) ==
    CASE v.t = "null" -> FALSE
      [] v.t = "list" -> v.len > 0
      [] v.t = "dict" -> DOMAIN v.d # {}
      [] OTHER -> TRUE

\* body.get('url', '').strip() : only a dict has .get, only a str has .strip
UrlOf(v) ==
    IF v.t # "dict" THEN Raised("AttributeError")
    ELSE LET u == Get(v.d, "url", UrlStr(<< >>))
         IN  IF u.t = "str" THEN Returned(Strip(u.chars)) ELSE Raised("AttributeError")

\* request.get_json() of Flask.  Without a JSON body it returns None or raises
\* an HTTPException, depending on the Flask release; malformed JSON raises.
GetJsonOutcomes(r) ==
    CASE r.kind = "json" -> {Returned(r.payload)}
      [] r.kind = "badjson" -> {Raised("BadRequest")}
      [] r.kind = "nojson" -> {Returned(JNull), Raised("UnsupportedMediaType")}

\* app.py lines 29-30
AppUrl(g) == IF g.err # "" THEN g ELSE UrlOf(g.val)

\* api/index.py lines 35-36
IndexUrl(g) ==
    IF g.err # "" THEN g
    ELSE IF PayloadTruthy(g.val) THEN UrlOf(g.val) ELSE Returned(<< >>)

\* api/convert.py lines 52-64: the body the handler reads the url from
HandlerBody(r) ==
    IF "json" \in DOMAIN r /\ PayloadTruthy(r.json) THEN r.json
    ELSE IF "body" \in DOMAIN r
         THEN IF r.body.t = "text"
              THEN IF r.body.parsed.t = "invalid" THEN Dict(EmptyDict) ELSE r.body.parsed
              ELSE IF r.body.t = "dict" THEN r.body
              ELSE Dict(EmptyDict)
         ELSE Dict(EmptyDict)

\* api/convert.py line 66
HandlerUrl(r) == UrlOf(HandlerBody(r))

\* The 400 of each wrapper
UrlRequired(w) ==
    IF w = "app"
    THEN [status |-> 400, body |-> [error |-> "URL is required"]]
    ELSE [status |-> 400, body |-> [success |-> FALSE, error |-> "URL is required"]]

\* From the url expression to 'if not url': an exception goes to the except
\* clause, an empty url is answered 400, any other url enters the pipeline.
ReadUrl(u) ==
    /\ calls' = calls
    /\ IF u.err # ""
       THEN /\ exc' = u.err
            /\ pc' = "except"
            /\ UNCHANGED <<url, response>>
       ELSE IF u.val = << >>
            THEN /\ response' = UrlRequired(wrapper)
                 /\ pc' = "done"
                 /\ UNCHANGED <<url, exc>>
            ELSE /\ url' = u.val
                 /\ pc' = "ensure_json_url"
                 /\ UNCHANGED <<exc, response>>
    /\ UNCHANGED <<wrapper, req, json_url, fetches, data, post_info, comments,
                   sorted_comments, output>>

\* app.convert up to line 33
AppConvert ==
    /\ pc = "start" /\ wrapper = "app"
    /\ \E g \in GetJsonOutcomes(req) : ReadUrl(AppUrl(g))

\* api/index.convert, a POST up to line 39
IndexConvert ==
    /\ pc = "start" /\ wrapper = "index" /\ req.method # "OPTIONS"
    /\ \E g \in GetJsonOutcomes(req) : ReadUrl(IndexUrl(g))

\* api/index.convert lines 27-32, api/convert.handler lines 35-40: the preflight
Preflight ==
    /\ pc = "start" /\ wrapper \in {"index", "handler"}
    /\ Get(req, "method", "GET") = "OPTIONS"
    /\ response' = [status |-> 200, body |-> EmptyDict]
    /\ pc' = "done"
    /\ UNCHANGED <<wrapper, req, url, json_url, fetches, data, post_info, comments,
                   sorted_comments, output, exc, calls>>

\* api/convert.handler lines 44-49
HandlerMethodNotAllowed ==
    /\ pc = "start" /\ wrapper = "handler"
    /\ Get(req, "method", "GET") \notin {"OPTIONS", "POST"}
    /\ response' = [status |-> 405,
                    body |-> [success |-> FALSE, error |-> "Method not allowed"]]
    /\ pc' = "done"
    /\ UNCHANGED <<wrapper, req, url, json_url, fetches, data, post_info, comments,
                   sorted_comments, output, exc, calls>>

\* api/convert.handler, a POST up to line 73
HandlerPost ==
    /\ pc = "start" /\ wrapper = "handler"
    /\ Get(req, "method", "GET") = "POST"
    /\ ReadUrl(HandlerUrl(req))

\* The success response of the three wrappers
RespondSuccess ==
    /\ pc = "respond"
    /\ response' = [status |-> 200,
                    body |-> [success |-> TRUE, output |-> output,
                              post_info |-> post_info,
                              comment_count |-> Len(sorted_comments)]]
    /\ pc' = "done"
    /\ UNCHANGED <<wrapper, req, url, json_url, fetches, data, post_info, comments,
                   sorted_comments, output, exc, calls>>

\* except Exception as e: of the three wrappers
RespondError ==
    /\ pc = "except"
    /\ response' = [status |-> 500, body |-> [success |-> FALSE, error |-> exc]]
    /\ pc' = "done"
    /\ UNCHANGED <<wrapper, req, url, json_url, fetches, data, post_info, comments,
                   sorted_comments, output, exc, calls>>

----------------------------------------------------------------------------
(* Requests *)

\* The url texts of a request
UrlTexts ==
    { << >>, <<" ">>, <<" ", " ">>, <<"r">>, <<" ", "r", "/", " ">>,
      <<"r", ".", "j", "s", "o", "n">>, <<"r", "/", "/">> }

DictPayloads ==
    {Dict(EmptyDict), Dict([url |-> JNull]), Dict([url |-> JNum])}
    \cup {Dict([url |-> UrlStr(u)]) : u \in UrlTexts}

Payloads == {JNull, JNum, JList(0), JList(1)} \cup DictPayloads

\* A Flask request: no JSON body, malformed JSON, or a parsed JSON body
FlaskRequests ==
    {[method |-> "POST", kind |-> "nojson"], [method |-> "POST", kind |-> "badjson"]}
    \cup {[method |-> "POST", kind |-> "json", payload |-> v] : v \in Payloads}

\* req.body of the serverless handler: text (by what json.loads makes of it),
\* a dict, or something else
HandlerBodies ==
    {[t |-> "text", parsed |-> v] : v \in Payloads \cup {[t |-> "invalid"]}}
    \cup DictPayloads
    \cup {[t |-> "bytes"]}

\* The request object of the serverless handler, by the attributes it has
HandlerRequests ==
    {EmptyDict, [method |-> "GET"], [method |-> "OPTIONS"], [method |-> "POST"]}
    \cup {[method |-> "POST", json |-> v] : v \in Payloads}
    \cup {[method |-> "POST", body |-> b] : b \in HandlerBodies}
    \cup {[method |-> "POST", json |-> JNull, body |-> b] : b \in HandlerBodies}

----------------------------------------------------------------------------
(* Specifications *)

\* The variables before anything has run
Fresh ==
    /\ url = << >>
    /\ json_url = << >>
    /\ fetches = 0
    /\ data = None
    /\ post_info = None
    /\ comments = None
    /\ sorted_comments = None
    /\ output = None
    /\ exc = ""
    /\ response = None
    /\ calls = << >>

NoRequest == [method |-> "none"]

\* A request arrives at one of the wrappers
Init ==
    /\ pc = "start"
    /\ \/ wrapper = "app" /\ req \in FlaskRequests
       \/ wrapper = "index"
          /\ req \in FlaskRequests \cup {[method |-> "OPTIONS", kind |-> "nojson"]}
       \/ wrapper = "handler" /\ req \in HandlerRequests
    /\ Fresh

Next ==
    \/ AppConvert
    \/ IndexConvert
    \/ Preflight
    \/ HandlerMethodNotAllowed
    \/ HandlerPost
    \/ EnsureJsonUrl
    \/ FetchReturns
    \/ FetchRaises
    \/ ExtractPostInfo
    \/ ExtractComments
    \/ SortComments
    \/ FormatOutput
    \/ RespondSuccess
    \/ RespondError

Spec == Init /\ [][Next]_vars

\* A direct call of extract_comments
InitFlatten ==
    /\ pc = "extract_comments"
    /\ wrapper = "call"
    /\ req = NoRequest
    /\ url = << >>
    /\ json_url = << >>
    /\ fetches = 0
    /\ \/ data \in ShortInputs
       \/ IsForestInput(data, MaxNodes, MaxIrregular, ContentLabels)
    /\ post_info = None
    /\ comments = None
    /\ sorted_comments = None
    /\ output = None
    /\ exc = ""
    /\ response = None
    /\ calls = << >>

NextFlatten == ExtractComments

SpecFlatten == InitFlatten /\ [][NextFlatten]_vars

\* A direct call of ensure_json_url
InitUrl ==
    /\ pc = "ensure_json_url"
    /\ wrapper = "call"
    /\ req = NoRequest
    /\ url \in UrlInputs
    /\ json_url = << >>
    /\ fetches = 0
    /\ data = None
    /\ post_info = None
    /\ comments = None
    /\ sorted_comments = None
    /\ output = None
    /\ exc = ""
    /\ response = None
    /\ calls = << >>

NextUrl == EnsureJsonUrl

SpecUrl == InitUrl /\ [][NextUrl]_vars

\* A direct call of sort_comments_by_upvotes
InitSort ==
    /\ pc = "sort_comments_by_upvotes"
    /\ wrapper = "call"
    /\ req = NoRequest
    /\ url = << >>
    /\ json_url = << >>
    /\ fetches = 0
    /\ data = None
    /\ post_info = None
    /\ comments \in SortInputs
    /\ sorted_comments = None
    /\ output = None
    /\ exc = ""
    /\ response = None
    /\ calls = << >>

NextSort == SortComments

SpecSort == InitSort /\ [][NextSort]_vars

----------------------------------------------------------------------------
(* Properties *)

\* The last core function called
LastCall == IF calls = << >> THEN "" ELSE calls[Len(calls)]

\* extract_comments was called directly on data and has returned
FlattenReturned == pc = "done" /\ LastCall = "extract_comments" /\ exc = ""

\* data has a comment listing: a second element with data.children
HasCommentListing ==
    /\ Len(data) >= 2
    /\ "data" \in DOMAIN data[2]
    /\ "children" \in DOMAIN data[2].data

\* The children listing of a raw node, empty when it has none
NodeChildren(n) ==
    IF /\ "data" \in DOMAIN n
       /\ "replies" \in DOMAIN n.data
       /\ n.data.replies.t = "dict"
       /\ "data" \in DOMAIN n.data.replies.d
       /\ "children" \in DOMAIN n.data.replies.d.data
    THEN n.data.replies.d.data.children
    ELSE << >>

\* The raw nodes of a children list in pre-order: a parent before its children,
\* siblings in source order
RECURSIVE PreOrder(_)
PreOrder(list) ==
    IF list = << >> THEN << >>
    ELSE <<Head(list)>> \o PreOrder(NodeChildren(Head(list))) \o PreOrder(Tail(list))

\* Every raw node of the comment listing, in pre-order
RawNodes == IF HasCommentListing THEN PreOrder(data[2].data.children) ELSE << >>

BodyOf(n) == IF "data" \in DOMAIN n /\ "body" \in DOMAIN n.data THEN n.data.body ELSE None

\* A "load more" placeholder
IsPlaceholder(n) == "data" \in DOMAIN n /\ "kind" \in DOMAIN n.data /\ n.data.kind = "more"

\* A node with a data payload that is a placeholder or has a missing, deleted or
\* removed body
IsSkippedNode(n) ==
    /\ "data" \in DOMAIN n
    /\ IsPlaceholder(n) \/ BodyOf(n) \in {None, "[deleted]", "[removed]"}

\* A node with a non-empty body that is not a sentinel
HasContent(n) == BodyOf(n) \notin {None, "", "[deleted]", "[removed]"}

\* A node that emits a record
EmitsRecord(n) == HasContent(n) /\ ~IsPlaceholder(n)

\* comments holds a record of node n
IsEmitted(n) ==
    \E k \in 1..Len(comments) : comments[k].permalink = n.data.permalink

\* permalink and body of each record / of each node of a list
RecordKeys(cs) == [k \in 1..Len(cs) |-> <<cs[k].permalink, cs[k].body>>]
NodeKeys(ns) == [k \in 1..Len(ns) |-> <<ns[k].data.permalink, ns[k].data.body>>]

\* The scenario: one root comment with body "[deleted]" and one reply "hello"
DeletedWithHelloReply ==
    /\ HasCommentListing
    /\ Len(data[2].data.children) = 1
    /\ BodyOf(data[2].data.children[1]) = "[deleted]"
    /\ ~IsPlaceholder(data[2].data.children[1])
    /\ Len(RawNodes) = 2
    /\ BodyOf(RawNodes[2]) = "hello"
    /\ ~IsPlaceholder(RawNodes[2])

C2_NoEmptyBodies ==
    FlattenReturned =>
        /\ \A k \in 1..Len(comments) :
              comments[k].body \notin {"", "[deleted]", "[removed]"}
        /\ Len(comments) <= Cardinality({i \in 1..Len(RawNodes) : HasContent(RawNodes[i])})

\* A listing with an empty-bodied node, a removed node and a placeholder that
\* carries a body has been flattened to fewer records than it has bodies
C2_Witness ==
    /\ FlattenReturned
    /\ \E i \in 1..Len(RawNodes) : BodyOf(RawNodes[i]) = ""
    /\ \E i \in 1..Len(RawNodes) : HasContent(RawNodes[i]) /\ IsPlaceholder(RawNodes[i])
    /\ Len(comments) = 1

\* C9: when extract_comments returns, its records are, in order, those of the
\* pre-order sequence of the raw nodes restricted to the nodes that emit a record.
C9_PreOrder ==
    FlattenReturned =>
        RecordKeys(comments) = NodeKeys(SelectSeq(RawNodes, EmitsRecord))

\* Three records came from a listing in which a reply precedes a later root
C9_Witness ==
    /\ FlattenReturned
    /\ HasCommentListing
    /\ Len(data[2].data.children) = 2
    /\ Len(NodeChildren(data[2].data.children[1])) = 1
    /\ Len(comments) = 3

\* C6 as stated: extract_comments returns the empty sequence and raises nothing
\* whenever data has fewer than 2 elements or the comment listing is absent.
C6_EmptyWhenNoListing ==
    (pc = "done" /\ LastCall = "extract_comments" /\ ~HasCommentListing) =>
        exc = "" /\ comments = << >>

\* C3: sort_comments_by_upvotes returns a permutation of its input that is
\* non-increasing in upvotes and keeps the input order of records of equal upvotes.
C3_StableDescending ==
    (pc = "done" /\ LastCall = "sort_comments_by_upvotes") =>
        /\ Len(sorted_comments) = Len(comments)
        /\ \E f \in [1..Len(comments) -> 1..Len(comments)] :
              /\ \A k, l \in 1..Len(comments) : k # l => f[k] # f[l]
              /\ \A k \in 1..Len(comments) : sorted_comments[k] = comments[f[k]]
              /\ \A k, l \in 1..Len(comments) :
                    (k < l /\ comments[f[k]].upvotes = comments[f[l]].upvotes)
                        => f[k] < f[l]
        /\ \A k \in 1..(Len(sorted_comments) - 1) :
              sorted_comments[k].upvotes >= sorted_comments[k + 1].upvotes

\* An input with two records of equal upvotes and a record out of order was sorted
C3_Witness ==
    /\ pc = "done" /\ LastCall = "sort_comments_by_upvotes"
    /\ \E i, j \in 1..Len(comments) :
          i < j /\ comments[i].upvotes = comments[j].upvotes
    /\ \E i, j \in 1..Len(comments) :
          i < j /\ comments[i].upvotes < comments[j].upvotes
    /\ sorted_comments # comments

\* The url with exactly one trailing '/' removed when it ends with one
StripOneSlash(u) ==
    IF u # << >> /\ u[Len(u)] = "/" THEN SubSeq(u, 1, Len(u) - 1) ELSE u

\* C4 as stated: ensure_json_url returns a url that ends with '.json' unchanged,
\* and otherwise the url with exactly one trailing '/' removed, followed by '.json'.
C4_ExactlyOneSlash ==
    (pc = "done" /\ LastCall = "ensure_json_url") =>
        json_url = IF EndsWith(url, JsonSuffix) THEN url
                   ELSE StripOneSlash(url) \o JsonSuffix

\* The path first listing -> data -> children -> first child -> data is there
HasPostPath ==
    /\ Len(data) >= 1
    /\ "data" \in DOMAIN data[1]
    /\ "children" \in DOMAIN data[1].data
    /\ Len(data[1].data.children) >= 1
    /\ "data" \in DOMAIN data[1].data.children[1]

\* C5 as stated: extract_post_info never raises, and without the post path its
\* result reads as all defaults (empty strings, score 0).
C5_NeverFails ==
    LastCall = "extract_post_info" =>
        /\ exc = ""
        /\ ~HasPostPath =>
              /\ Get(post_info, "title", "") = ""
              /\ Get(post_info, "selftext", "") = ""
              /\ Get(post_info, "author", "") = ""
              /\ Get(post_info, "url", "") = ""
              /\ Get(post_info, "score", 0) = 0

\* The request is a POST that carries no url: no JSON body, a JSON object
\* without 'url', or a 'url' that is empty or whitespace only
HasNoUrl ==
    /\ Get(req, "method", "GET") = "POST"
    /\ IF wrapper = "handler"
       THEN \/ DOMAIN req = {"method"}
            \/ /\ DOMAIN req = {"method", "json"}
               /\ req.json.t = "dict"
               /\ "url" \in DOMAIN req.json.d => /\ req.json.d.url.t = "str"
                                                  /\ Strip(req.json.d.url.chars) = << >>
       ELSE \/ req.kind = "nojson"
            \/ /\ req.kind = "json"
               /\ req.payload.t = "dict"
               /\ "url" \in DOMAIN req.payload.d => /\ req.payload.d.url.t = "str"
                                                     /\ Strip(req.payload.d.url.chars) = << >>

\* C7 as stated: every wrapper answers a POST without a url with a 4xx response
\* and never fetches for it.
C7_ClientError ==
    /\ HasNoUrl => fetches = 0
    /\ (pc = "done" /\ HasNoUrl) => response.status \in 400..499

\* C8: the fetch is attempted at most once in a request; when it fails no later
\* step runs and the wrapper answers once, with status 500, success false, an
\* error and no output.
C8_FetchOnceFailureAborts ==
    /\ fetches <= 1
    /\ \A i, j \in 1..Len(calls) :
          (calls[i] = "fetch_reddit_json" /\ calls[j] = "fetch_reddit_json") => i = j
    /\ exc = "FetchError" =>
          /\ LastCall = "fetch_reddit_json"
          /\ pc \in {"except", "done"}
          /\ pc = "done" =>
                /\ response.status = 500
                /\ DOMAIN response.body = {"success", "error"}
                /\ response.body.success = FALSE

\* A request whose fetch failed has been answered
C8_Witness ==
    /\ pc = "done"
    /\ exc = "FetchError"
    /\ fetches = 1
    /\ response.status = 500

\* C10 as stated: format_output writes 'Title: N/A' when the post's title is
\* missing or empty and 'Author: u/N/A' when the author is, else the actual ones.
C10_NotAvailable ==
    LastCall = "format_output" =>
        /\ output[4] = <<"Title: ",
                         IF Get(post_info, "title", "") = "" THEN "N/A"
                         ELSE post_info.title>>
        /\ output[5] = <<"Author: u/",
                         IF Get(post_info, "author", "") = "" THEN "N/A"
                         ELSE post_info.author>>

====
